---- MODULE Spec2Model ----
(***************************************************************************)
(* Model of the native core of Asscre/vapp: the path-redirection facade    *)
(* (Foundation/IORelocator.cpp), the path normaliser (utils/FileUtils.cpp) *)
(* and the hook registry (Substrate/SubstrateHook.cpp).                    *)
(*                                                                         *)
(* A path is a sequence of one-character strings.  Addresses are naturals, *)
(* nullptr is 0.  The bodies of the per-architecture backends and of the   *)
(* facade's hookOpen..hookRmdir are placeholders in the source; their bool *)
(* result is what their callers branch on, and it is taken here as an      *)
(* input of the calling operation.                                         *)
(***************************************************************************)
EXTENDS Integers, Sequences, FiniteSets, TLC

VARIABLES
    mIsInitialized,     \* IORelocator::mIsInitialized
    mPathMappings,      \* IORelocator::mPathMappings (std::map<string,string>)
    hookIsInitialized,  \* SubstrateHook::mIsInitialized
    mHookManager,       \* SubstrateHook::mHookManager (std::map<void*,HookInfo>)
    arch,               \* the value getArchitecture() returns in this build
    now,                \* CLOCK_MONOTONIC in milliseconds
    alive,              \* FALSE once the process has crashed
    lifecycle,          \* history: how the facade came to its present state
    installed,          \* history: targets whose latest successful call was hookMethod
    patched,            \* history: targets whose latest backend call that returned
                        \* true was an install (hookMethodARM .. hookMethodX86_64)
    last,               \* history: the most recent completed call and its result
    mMutex,             \* IORelocator::mMutex: 0 when free, else the holding thread
    pc,                 \* per thread: position inside the operation it runs
    frame,              \* per thread: arguments and locals of that operation
    sInstance,          \* per class: IORelocator::sInstance, SubstrateHook::sInstance
    sMutex,             \* per class: its sMutex, 0 when free, else the holding thread
    instances           \* history, per class: how many objects were constructed

vars == <<mIsInitialized, mPathMappings, hookIsInitialized, mHookManager, arch, now,
          alive, lifecycle, installed, patched, last, mMutex, pc, frame,
          sInstance, sMutex, instances>>

\* the statics of the two singletons and their history
instVars == <<sInstance, sMutex, instances>>

-----------------------------------------------------------------------------
(* Bounds *)

\* longest generated input path
MaxLen == 3
\* most rules the table is let to hold
MaxRules == 2
\* largest target address
MaxTarget == 2
\* last value of the monotonic clock
MaxClock == 1
\* number of threads of the concurrent specifications
NumThreads == 2

-----------------------------------------------------------------------------
(* Characters and paths *)

\* the characters used, in ASCII order
Chars == <<"/", "2", "\\", "a", "d", "e", "f", "h", "o", "p", "r", "t", "v", "w">>

CharCode(c) == CHOOSE i \in 1..Len(Chars) : Chars[i] = c

Alphabet == {"/", "\\", "a"}

AllPaths(n) == UNION {[1..k -> Alphabet] : k \in 0..n}

\* std::string::operator< : lexicographic by character
RECURSIVE StringLess(_, _)
StringLess(s, t) ==
    IF t = <<>> THEN FALSE
    ELSE IF s = <<>> THEN TRUE
    ELSE IF s[1] # t[1] THEN CharCode(s[1]) < CharCode(t[1])
    ELSE StringLess(Tail(s), Tail(t))

\* std::replace(begin, end, '\\', '/')
ReplaceBackslash(s) == [i \in 1..Len(s) |-> IF s[i] = "\\" THEN "/" ELSE s[i]]

\* std::unique with the predicate a == '/' && b == '/': an element is dropped
\* when it and the last element kept are both '/'
RECURSIVE UniqueSlash(_, _)
UniqueSlash(kept, rest) ==
    IF rest = <<>> THEN kept
    ELSE IF kept # <<>> /\ kept[Len(kept)] = "/" /\ rest[1] = "/"
         THEN UniqueSlash(kept, Tail(rest))
         ELSE UniqueSlash(Append(kept, rest[1]), Tail(rest))

\* mutant: the trailing separator is kept
normalizePathKeepTrailing(path) ==
    IF path = <<>> THEN path
    ELSE UniqueSlash(<<>>, ReplaceBackslash(path))

\* FileUtils::normalizePath
normalizePath(path) ==
    IF path = <<>> THEN path
    ELSE LET normalized == UniqueSlash(<<>>, ReplaceBackslash(path))
         IN  IF Len(normalized) > 1 /\ normalized[Len(normalized)] = "/"
             THEN SubSeq(normalized, 1, Len(normalized) - 1)
             ELSE normalized

\* normalizedPath.find(original) == 0
FindAtZero(normalizedPath, original) ==
    /\ Len(original) <= Len(normalizedPath)
    /\ SubSeq(normalizedPath, 1, Len(original)) = original

\* normalizedPath.substr(n)
Substr(s, n) == SubSeq(s, n + 1, Len(s))

-----------------------------------------------------------------------------
(* std::map as a function; iteration is in key order *)

EmptyMap == <<>>

MapPut(m, k, v) == [x \in DOMAIN m \cup {k} |-> IF x = k THEN v ELSE m[x]]

MapErase(m, k) == [x \in DOMAIN m \ {k} |-> m[x]]

\* the least key of a non-empty set of string keys
FirstKey(keys) == CHOOSE k \in keys : \A j \in keys \ {k} : StringLess(k, j)

-----------------------------------------------------------------------------
(* IORelocator::redirectPath, the scan *)

NoBest == [bestMatch |-> <<>>, bestVirtualPath |-> <<>>, bestLength |-> 0]

\* mutant: the first matching rule is kept
ScanRuleFirstMatch(best, original, virtualPath, normalizedPath) ==
    IF FindAtZero(normalizedPath, original) /\ best.bestLength = 0
    THEN [bestMatch |-> original, bestVirtualPath |-> virtualPath,
          bestLength |-> Len(original)]
    ELSE best

\* one iteration of the loop over mPathMappings
ScanRule(best, original, virtualPath, normalizedPath) ==
    IF FindAtZero(normalizedPath, original) /\ Len(original) > best.bestLength
    THEN [bestMatch |-> original, bestVirtualPath |-> virtualPath,
          bestLength |-> Len(original)]
    ELSE best

\* the loop over the rules whose keys are in `keys`, in key order
RECURSIVE ScanRules(_, _, _, _)
ScanRules(best, keys, mappings, normalizedPath) ==
    IF keys = {} THEN best
    ELSE LET k == FirstKey(keys)
         IN  ScanRules(ScanRule(best, k, mappings[k], normalizedPath),
                       keys \ {k}, mappings, normalizedPath)

\* mutant: the normalized path is returned when nothing matches
ScanResultNormalized(best, originalPath, normalizedPath) ==
    IF best.bestMatch # <<>>
    THEN best.bestVirtualPath \o Substr(normalizedPath, Len(best.bestMatch))
    ELSE normalizedPath

\* what redirectPath returns once the loop is over
ScanResult(best, originalPath, normalizedPath) ==
    IF best.bestMatch # <<>>
    THEN best.bestVirtualPath \o Substr(normalizedPath, Len(best.bestMatch))
    ELSE originalPath

\* mutant: the uninitialized facade returns the normalized path
redirectPathNormalizing(initialized, mappings, originalPath) ==
    IF ~initialized THEN normalizePath(originalPath)
    ELSE LET normalizedPath == normalizePath(originalPath)
         IN  ScanResult(ScanRules(NoBest, DOMAIN mappings, mappings, normalizedPath),
                        originalPath, normalizedPath)

\* IORelocator::redirectPath as a function of the flag, the table and the input
redirectPath(initialized, mappings, originalPath) ==
    IF ~initialized THEN originalPath
    ELSE LET normalizedPath == normalizePath(originalPath)
         IN  ScanResult(ScanRules(NoBest, DOMAIN mappings, mappings, normalizedPath),
                        originalPath, normalizedPath)

-----------------------------------------------------------------------------
(* Inputs *)

nullptr == 0

ARCH_UNKNOWN == 0
ARCH_ARM == 1
ARCH_ARM64 == 2
ARCH_X86 == 3
ARCH_X86_64 == 4

Architectures == {ARCH_UNKNOWN, ARCH_ARM, ARCH_ARM64, ARCH_X86, ARCH_X86_64}

Data == <<"/", "d", "a", "t", "a">>
DataApp == <<"/", "d", "a", "t", "a", "/", "a", "p", "p">>
VData == <<"/", "v", "d", "a", "t", "a">>
VDataApp2 == <<"/", "v", "d", "a", "t", "a", "/", "a", "p", "p", "2">>
DataAppFoo == <<"/", "d", "a", "t", "a", "/", "a", "p", "p", "/", "f", "o", "o">>
DataOther == <<"/", "d", "a", "t", "a", "/", "o", "t", "h", "e", "r">>

\* original paths given to addPathMapping and removePathMapping
OrigInputs == {<<>>, <<"/">>, <<"/", "a">>, <<"/", "a", "/">>,
               <<"\\", "a", "\\", "a">>, <<"/", "a", "a">>}

\* virtual paths given to addPathMapping
VirtInputs == {<<>>, <<"/", "v">>, <<"/", "w", "/">>}

\* a path that does not start with a separator
Relative == <<"a">>

AddInputs == (OrigInputs \X VirtInputs)
                \cup {<<Data, VData>>, <<DataApp, VDataApp2>>, <<Relative, <<"/", "v">>>>}

RemoveInputs == OrigInputs \cup {Data, DataApp}

\* paths given to redirectPath
PathInputs == AllPaths(MaxLen) \cup {DataAppFoo, DataOther}

Targets == 0..MaxTarget
\* the <<hookMethod, backupMethod>> addresses given to hookMethod
HookInputs == {<<nullptr, 1>>, <<1, nullptr>>, <<2, 1>>}

Threads == 1..NumThreads
\* the classes with a lazily created singleton
Classes == {"IORelocator", "SubstrateHook"}

\* the steps of IORelocator::initialize that report success or failure, in order
FrameworkSteps == {"initializeARMHook", "initializeARM64Hook"}
EntryPointSteps == {"hookOpen", "hookStat", "hookAccess", "hookUnlink", "hookRename",
                    "hookOpendir", "hookMkdir", "hookRmdir"}
\* the entry-point steps in the order initializeSystemCallHooks runs them
EntryPointOrder == <<"hookOpen", "hookStat", "hookAccess", "hookUnlink", "hookRename",
                     "hookOpendir", "hookMkdir", "hookRmdir">>
\* the step whose result is failure, or "none"
FailInputs == FrameworkSteps \cup EntryPointSteps \cup {"none"}

-----------------------------------------------------------------------------
(* History *)

NoCall == [op |-> "none", path |-> <<>>, path2 |-> <<>>, target |-> 0, hook |-> 0,
           ok |-> FALSE, out |-> <<>>, prevAdd |-> <<>>, steps |-> 0]

\* the key of the successful addPathMapping that `last` records, else the empty path
AddedKey == IF last.op = "addPathMapping" /\ last.ok THEN normalizePath(last.path)
            ELSE <<>>

PathCall(op, path, path2, ok, out) ==
    [op |-> op, path |-> path, path2 |-> path2, target |-> 0, hook |-> 0, ok |-> ok,
     out |-> out,
     prevAdd |-> IF op = "removePathMapping" THEN AddedKey ELSE <<>>, steps |-> 0]

HookCall(op, target, ok) ==
    [op |-> op, path |-> <<>>, path2 |-> <<>>, target |-> target, hook |-> 0, ok |-> ok,
     out |-> <<>>, prevAdd |-> <<>>, steps |-> 0]

\* the record of a hookMethod call, with the replacement address it was given
HookMethodCall(target, hook, ok) ==
    [HookCall("hookMethod", target, ok) EXCEPT !.hook = hook]

concVars == <<mMutex, pc, frame, instVars>>

-----------------------------------------------------------------------------
(* SubstrateHook, each operation as one step *)

\* how many entry-point steps of an initializeSystemCallHooks call return true
\* when the registry's initialize returns frameworkOk and failAt is the step
\* that fails
StepsDone(frameworkOk, failAt) ==
    IF ~frameworkOk THEN 0
    ELSE IF failAt \in EntryPointSteps
         THEN (CHOOSE i \in 1..Len(EntryPointOrder) : EntryPointOrder[i] = failAt) - 1
         ELSE Len(EntryPointOrder)

\* the record of an initialize() call that ran initializeSystemCallHooks
InitializeCall(ok, frameworkOk, failAt) ==
    [PathCall("initialize", <<>>, <<>>, ok, <<>>)
        EXCEPT !.steps = StepsDone(frameworkOk, failAt)]

\* SubstrateHook::initialize returns true
SubstrateInitializeOk(failAt) == hookIsInitialized \/ failAt \notin FrameworkSteps

\* SubstrateHook::initialize, on the singleton (IORelocator.cpp:198 writes the call
\* as SubstrateHook::initialize())
SubstrateInitialize(failAt) ==
    IF hookIsInitialized
    THEN UNCHANGED <<hookIsInitialized, mHookManager, installed, patched>>
    ELSE /\ mHookManager' = EmptyMap
         /\ installed' = {}
         /\ hookIsInitialized' = (failAt \notin FrameworkSteps)
         /\ UNCHANGED patched

\* SubstrateHook::cleanup with cleanupAllHooks: every record is handed to
\* unhookMethod, the table is cleared and the flag reset.  failing is the set of
\* targets whose backend reversal returns false.  When a reversal succeeds
\* unhookMethod erases the element the range-for is standing on, so the loop
\* steps from an invalidated iterator: the call either completes or the process dies.
SubstrateCleanup(crash, failing) ==
    IF ~hookIsInitialized
    THEN UNCHANGED <<hookIsInitialized, mHookManager, installed, patched, alive>>
    ELSE IF crash /\ DOMAIN mHookManager \ failing # {}
         THEN /\ alive' = FALSE
              /\ UNCHANGED <<hookIsInitialized, mHookManager, installed, patched>>
         ELSE /\ mHookManager' = EmptyMap
              /\ installed' = {}
              /\ patched' = patched \ (DOMAIN mHookManager \ failing)
              /\ hookIsInitialized' = FALSE
              /\ UNCHANGED alive

-----------------------------------------------------------------------------
(* IORelocator, each operation as one step *)

\* mutant: initialize starts over when the facade is already initialized
InitializeAgain(failAt) ==
    /\ alive
    /\ mPathMappings' = EmptyMap
    /\ SubstrateInitialize(failAt)
    /\ LET ok == SubstrateInitializeOk(failAt) /\ failAt \notin EntryPointSteps
       IN  /\ mIsInitialized' = ok
           /\ lifecycle' = IF ok THEN "active" ELSE "failed"
           /\ last' = PathCall("initialize", <<>>, <<>>, ok, <<>>)
    /\ UNCHANGED <<arch, now, alive, concVars>>

\* mutant: initializeSystemCallHooks does not look at what
\* hookDirectoryOperations returns
InitializeIgnoringDirectoryHooks(failAt) ==
    /\ alive
    /\ IF mIsInitialized
       THEN /\ last' = PathCall("initialize", <<>>, <<>>, TRUE, <<>>)
            /\ UNCHANGED <<mIsInitialized, mPathMappings, hookIsInitialized,
                           mHookManager, installed, patched, lifecycle>>
       ELSE /\ mPathMappings' = EmptyMap
            /\ SubstrateInitialize(failAt)
            /\ LET ok == /\ SubstrateInitializeOk(failAt)
                         /\ failAt \notin {EntryPointOrder[i] : i \in 1..5}
               IN  /\ mIsInitialized' = ok
                   /\ lifecycle' = IF ok THEN "active" ELSE "failed"
                   /\ last' = InitializeCall(ok, SubstrateInitializeOk(failAt), failAt)
    /\ UNCHANGED <<arch, now, alive, concVars>>

\* IORelocator::initialize with initializeSystemCallHooks, hookFileOperations and
\* hookDirectoryOperations; failAt names the step that reports failure
Initialize(failAt) ==
    /\ alive
    /\ IF mIsInitialized
       THEN /\ last' = PathCall("initialize", <<>>, <<>>, TRUE, <<>>)
            /\ UNCHANGED <<mIsInitialized, mPathMappings, hookIsInitialized,
                           mHookManager, installed, patched, lifecycle>>
       ELSE /\ mPathMappings' = EmptyMap
            /\ SubstrateInitialize(failAt)
            /\ LET ok == SubstrateInitializeOk(failAt) /\ failAt \notin EntryPointSteps
               IN  /\ mIsInitialized' = ok
                   /\ lifecycle' = IF ok THEN "active" ELSE "failed"
                   /\ last' = InitializeCall(ok, SubstrateInitializeOk(failAt), failAt)
    /\ UNCHANGED <<arch, now, alive, concVars>>

\* mutant: cleanup clears the rules and resets the flag and leaves the registry
\* as it is
CleanupFacadeOnly(crash, failing) ==
    /\ alive
    /\ IF ~mIsInitialized
       THEN /\ last' = PathCall("cleanup", <<>>, <<>>, TRUE, <<>>)
            /\ UNCHANGED <<mIsInitialized, mPathMappings, lifecycle>>
       ELSE /\ mPathMappings' = EmptyMap
            /\ mIsInitialized' = FALSE
            /\ lifecycle' = "cleaned"
            /\ last' = PathCall("cleanup", <<>>, <<>>, TRUE, <<>>)
    /\ UNCHANGED <<hookIsInitialized, mHookManager, installed, patched, alive, arch, now,
                   concVars>>

\* mutant: cleanup tears the hooks and the rules down and leaves the flag set
CleanupKeepsFlag(crash, failing) ==
    /\ alive
    /\ IF ~mIsInitialized
       THEN /\ last' = PathCall("cleanup", <<>>, <<>>, TRUE, <<>>)
            /\ UNCHANGED <<mIsInitialized, mPathMappings, hookIsInitialized,
                           mHookManager, installed, patched, alive, lifecycle>>
       ELSE /\ SubstrateCleanup(crash, failing)
            /\ IF alive'
               THEN /\ mPathMappings' = EmptyMap
                    /\ lifecycle' = "cleaned"
                    /\ last' = PathCall("cleanup", <<>>, <<>>, TRUE, <<>>)
                    /\ UNCHANGED mIsInitialized
               ELSE UNCHANGED <<mPathMappings, mIsInitialized, lifecycle, last>>
    /\ UNCHANGED <<arch, now, concVars>>

\* IORelocator::cleanup with cleanupSystemCallHooks
Cleanup(crash, failing) ==
    /\ alive
    /\ IF ~mIsInitialized
       THEN /\ last' = PathCall("cleanup", <<>>, <<>>, TRUE, <<>>)
            /\ UNCHANGED <<mIsInitialized, mPathMappings, hookIsInitialized,
                           mHookManager, installed, patched, alive, lifecycle>>
       ELSE /\ SubstrateCleanup(crash, failing)
            /\ IF alive'
               THEN /\ mPathMappings' = EmptyMap
                    /\ mIsInitialized' = FALSE
                    /\ lifecycle' = "cleaned"
                    /\ last' = PathCall("cleanup", <<>>, <<>>, TRUE, <<>>)
               ELSE UNCHANGED <<mPathMappings, mIsInitialized, lifecycle, last>>
    /\ UNCHANGED <<arch, now, concVars>>

\* mutant: addPathMapping checks the original path only
AddPathMappingUnchecked(originalPath, virtualPath) ==
    /\ alive
    /\ LET normalizedOriginal == normalizePath(originalPath)
           normalizedVirtual == normalizePath(virtualPath)
           ok == /\ mIsInitialized
                 /\ normalizedOriginal # <<>>
       IN  /\ ok => \/ normalizedOriginal \in DOMAIN mPathMappings
                    \/ Cardinality(DOMAIN mPathMappings) < MaxRules
           /\ mPathMappings' = IF ok
                               THEN MapPut(mPathMappings, normalizedOriginal,
                                           normalizedVirtual)
                               ELSE mPathMappings
           /\ last' = PathCall("addPathMapping", originalPath, virtualPath, ok, <<>>)
    /\ UNCHANGED <<mIsInitialized, hookIsInitialized, mHookManager, arch, now, alive,
                   lifecycle, installed, patched, concVars>>

\* IORelocator::addPathMapping
AddPathMapping(originalPath, virtualPath) ==
    /\ alive
    /\ LET normalizedOriginal == normalizePath(originalPath)
           normalizedVirtual == normalizePath(virtualPath)
           ok == /\ mIsInitialized
                 /\ normalizedOriginal # <<>>
                 /\ normalizedVirtual # <<>>
       IN  /\ ok => \/ normalizedOriginal \in DOMAIN mPathMappings
                    \/ Cardinality(DOMAIN mPathMappings) < MaxRules
           /\ mPathMappings' = IF ok
                               THEN MapPut(mPathMappings, normalizedOriginal,
                                           normalizedVirtual)
                               ELSE mPathMappings
           /\ last' = PathCall("addPathMapping", originalPath, virtualPath, ok, <<>>)
    /\ UNCHANGED <<mIsInitialized, hookIsInitialized, mHookManager, arch, now, alive,
                   lifecycle, installed, patched, concVars>>

\* mutant: removePathMapping reports success and leaves the rule in place
RemovePathMappingKeeps(originalPath) ==
    /\ alive
    /\ LET ok == mIsInitialized /\ normalizePath(originalPath) \in DOMAIN mPathMappings
       IN  last' = PathCall("removePathMapping", originalPath, <<>>, ok, <<>>)
    /\ UNCHANGED <<mPathMappings, mIsInitialized, hookIsInitialized, mHookManager, arch,
                   now, alive, lifecycle, installed, patched, concVars>>

\* mutant: removePathMapping erases every rule whose prefix starts with the path
RemovePathMappingByPrefix(originalPath) ==
    /\ alive
    /\ LET normalizedPath == normalizePath(originalPath)
           ok == mIsInitialized /\ normalizedPath \in DOMAIN mPathMappings
           kept == {k \in DOMAIN mPathMappings : ~FindAtZero(k, normalizedPath)}
       IN  /\ mPathMappings' = IF ok THEN [k \in kept |-> mPathMappings[k]]
                               ELSE mPathMappings
           /\ last' = PathCall("removePathMapping", originalPath, <<>>, ok, <<>>)
    /\ UNCHANGED <<mIsInitialized, hookIsInitialized, mHookManager, arch, now, alive,
                   lifecycle, installed, patched, concVars>>

\* IORelocator::removePathMapping
RemovePathMapping(originalPath) ==
    /\ alive
    /\ LET normalizedPath == normalizePath(originalPath)
           ok == mIsInitialized /\ normalizedPath \in DOMAIN mPathMappings
       IN  /\ mPathMappings' = IF ok THEN MapErase(mPathMappings, normalizedPath)
                               ELSE mPathMappings
           /\ last' = PathCall("removePathMapping", originalPath, <<>>, ok, <<>>)
    /\ UNCHANGED <<mIsInitialized, hookIsInitialized, mHookManager, arch, now, alive,
                   lifecycle, installed, patched, concVars>>

\* mutant: redirectPath probes the table with operator[], which inserts an
\* empty rule for the normalized path
RedirectPathInserting(originalPath) ==
    /\ alive
    /\ last' = PathCall("redirectPath", originalPath, <<>>, TRUE,
                        redirectPath(mIsInitialized, mPathMappings, originalPath))
    /\ LET normalizedPath == normalizePath(originalPath)
       IN  mPathMappings' = IF mIsInitialized /\ normalizedPath \notin DOMAIN mPathMappings
                            THEN MapPut(mPathMappings, normalizedPath, <<>>)
                            ELSE mPathMappings
    /\ UNCHANGED <<mIsInitialized, hookIsInitialized, mHookManager, arch,
                   now, alive, lifecycle, installed, patched, concVars>>

\* a call of IORelocator::redirectPath
RedirectPath(originalPath) ==
    /\ alive
    /\ last' = PathCall("redirectPath", originalPath, <<>>, TRUE,
                        redirectPath(mIsInitialized, mPathMappings, originalPath))
    /\ UNCHANGED <<mIsInitialized, mPathMappings, hookIsInitialized, mHookManager, arch,
                   now, alive, lifecycle, installed, patched, concVars>>

-----------------------------------------------------------------------------
(* The facade driven by one caller *)

NoFrame == [op |-> "none"]

Init ==
    /\ mIsInitialized = FALSE
    /\ mPathMappings = EmptyMap
    /\ hookIsInitialized = FALSE
    /\ mHookManager = EmptyMap
    /\ arch = ARCH_ARM64     \* no operation of the facade calls getArchitecture()
    /\ now = 0
    /\ alive = TRUE
    /\ lifecycle = "constructed"
    /\ installed = {}
    /\ patched = {}
    /\ last = NoCall
    /\ mMutex = 0
    /\ pc = [t \in Threads |-> "idle"]
    /\ frame = [t \in Threads |-> NoFrame]
    /\ sInstance = [c \in Classes |-> nullptr]
    /\ sMutex = [c \in Classes |-> 0]
    /\ instances = [c \in Classes |-> 0]

Next ==
    \/ \E failAt \in FailInputs : Initialize(failAt)
    \/ Cleanup(FALSE, {})
    \/ \E in \in AddInputs : AddPathMapping(in[1], in[2])
    \/ \E p \in RemoveInputs : RemovePathMapping(p)
    \/ \E p \in PathInputs : RedirectPath(p)

Spec == Init /\ [][Next]_vars

-----------------------------------------------------------------------------
(* Properties of the facade *)

\* k is a prefix of n
IsPrefixOf(k, n) == \E i \in 0..Len(n) : k = [j \in 1..i |-> n[j]]

\* n without its first len characters
Rest(n, len) == [j \in 1..(Len(n) - len) |-> n[j + len]]

\* the keys of the table that are prefixes of the normalized form of path
MatchingRules(path) ==
    {k \in DOMAIN mPathMappings : IsPrefixOf(k, normalizePath(path))}

ExampleRules == MapPut(MapPut(EmptyMap, Data, VData), DataApp, VDataApp2)

\* C1: while the facade is Active, a redirectPath call whose normalized input has
\* matching rules returns the virtual prefix of the matching rule with the longest
\* original prefix, followed by the rest of the normalized input; with the rules
\* /data -> /vdata and /data/app -> /vdata/app2, /data/app/foo gives
\* /vdata/app2/foo and /data/other gives /vdata/other.
LongestPrefixMatch ==
    (last.op = "redirectPath" /\ mIsInitialized) =>
        /\ MatchingRules(last.path) # {} =>
              \E k \in MatchingRules(last.path) :
                  /\ \A j \in MatchingRules(last.path) : Len(j) <= Len(k)
                  /\ last.out = mPathMappings[k] \o Rest(normalizePath(last.path), Len(k))
        /\ (mPathMappings = ExampleRules /\ last.path = DataAppFoo) =>
              last.out = VDataApp2 \o <<"/", "f", "o", "o">>
        /\ (mPathMappings = ExampleRules /\ last.path = DataOther) =>
              last.out = VData \o <<"/", "o", "t", "h", "e", "r">>

LongestPrefixMatchWitness ==
    /\ last.op = "redirectPath"
    /\ mIsInitialized
    /\ mPathMappings = ExampleRules
    /\ last.path = DataAppFoo
    /\ Cardinality(MatchingRules(last.path)) = 2
    /\ last.out = <<"/", "v", "d", "a", "t", "a", "/", "a", "p", "p", "2", "/", "f", "o", "o">>

\* C2: a redirectPath call whose normalized input no rule's original prefix is a
\* prefix of returns its input unchanged, normalized or not.
NoMatchPassthrough ==
    (last.op = "redirectPath" /\ MatchingRules(last.path) = {}) =>
        last.out = last.path

NoMatchPassthroughWitness ==
    /\ last.op = "redirectPath"
    /\ mIsInitialized
    /\ mPathMappings # EmptyMap
    /\ MatchingRules(last.path) = {}
    /\ normalizePath(last.path) # last.path
    /\ last.out = last.path

IdempotentInitialize ==
    [][(mIsInitialized /\ last'.op = "initialize")
       => (/\ last'.ok
           /\ mIsInitialized'
           /\ mPathMappings' = mPathMappings
           /\ hookIsInitialized' = hookIsInitialized
           /\ mHookManager' = mHookManager)]_vars

IdempotentInitializeWitness ==
    /\ last.op = "initialize"
    /\ last.ok
    /\ mIsInitialized
    /\ mPathMappings # EmptyMap

\* C7: while the facade is not Active, redirectPath returns its input unmodified.
GracefulDegradation ==
    (last.op = "redirectPath" /\ ~mIsInitialized) => last.out = last.path

GracefulDegradationWitness ==
    /\ last.op = "redirectPath"
    /\ ~mIsInitialized
    /\ lifecycle = "cleaned"
    /\ normalizePath(last.path) # last.path
    /\ last.out = last.path

\* `last` is a successful removePathMapping(A) that directly followed a
\* successful addPathMapping(A, B)
RemovedAfterAdd ==
    /\ last.op = "removePathMapping"
    /\ last.ok
    /\ last.prevAdd = normalizePath(last.path)

\* C8 as stated: after addPathMapping(A, B) then removePathMapping(A), redirectPath
\* of every path under A returns the unmodified input, whatever else the table holds.
RemovalRevertsRedirection ==
    RemovedAfterAdd =>
        \A p \in PathInputs :
            IsPrefixOf(last.prevAdd, normalizePath(p)) =>
                redirectPath(mIsInitialized, mPathMappings, p) = p

\* C8 amended: after addPathMapping(A, B) then removePathMapping(A) no rule for A
\* is left, and redirectPath of a path under A returns the unmodified input unless
\* another rule still in the table matches it.
RemovalRevertsUnlessOtherRule ==
    RemovedAfterAdd =>
        /\ last.prevAdd \notin DOMAIN mPathMappings
        /\ \A p \in PathInputs :
               (IsPrefixOf(last.prevAdd, normalizePath(p)) /\ MatchingRules(p) = {}) =>
                   redirectPath(mIsInitialized, mPathMappings, p) = p

RemovalRevertsWitness ==
    /\ RemovedAfterAdd
    /\ mPathMappings # EmptyMap
    /\ \E p \in PathInputs :
           /\ IsPrefixOf(last.prevAdd, normalizePath(p))
           /\ normalizePath(p) # p
           /\ MatchingRules(p) = {}

\* C11: the facade's flag is set only by an initialize() that returns true and
\* reset only by cleanup(); initialize() returns the flag it leaves; a cleanup()
\* that has returned leaves the flag reset, also when the call before it was an
\* initialize() that returned false; and from every state with the flag reset
\* an initialize() whose steps succeed sets it again.
FacadeLifecycle ==
    [][/\ (~mIsInitialized /\ mIsInitialized') => (last'.op = "initialize" /\ last'.ok)
       /\ (mIsInitialized /\ ~mIsInitialized') => last'.op = "cleanup"
       /\ last'.op = "initialize" => (mIsInitialized' <=> last'.ok)
       /\ last'.op = "cleanup" => ~mIsInitialized'
       /\ (alive /\ ~mIsInitialized) => ENABLED (Initialize("none") /\ mIsInitialized')
      ]_vars

\* cleanup() has returned in the state an initialize() that failed after the
\* registry came up had left
FacadeLifecycleWitness ==
    /\ last.op = "cleanup"
    /\ lifecycle = "failed"
    /\ hookIsInitialized
    /\ ~mIsInitialized

\* C15: among rules with the same original prefix the one inserted first is the
\* one redirectPath uses: an addPathMapping for a prefix that already has a rule
\* leaves that rule's virtual prefix, and so every redirection, as it was.
FirstInsertedWins ==
    [][(/\ last'.op = "addPathMapping"
        /\ last'.ok
        /\ last' # last
        /\ normalizePath(last'.path) \in DOMAIN mPathMappings)
       => (/\ mPathMappings'[normalizePath(last'.path)]
                = mPathMappings[normalizePath(last'.path)]
           /\ \A p \in PathInputs :
                 redirectPath(mIsInitialized', mPathMappings', p)
                    = redirectPath(mIsInitialized, mPathMappings, p))]_vars

\* C16: addPathMapping stores the normalized original and virtual paths and
\* returns false when either of them is empty after normalization; an
\* addPathMapping or removePathMapping call that returns false leaves the rule
\* table, the facade's flag and the registry as they were.
FailedMappingCallChangesNothing ==
    [][(last'.op \in {"addPathMapping", "removePathMapping"} /\ last' # last) =>
          LET normalizedOriginal == normalizePath(last'.path)
              normalizedVirtual == normalizePath(last'.path2)
          IN  /\ (/\ last'.op = "addPathMapping"
                  /\ (normalizedOriginal = <<>> \/ normalizedVirtual = <<>>))
                 => ~last'.ok
              /\ (last'.op = "addPathMapping" /\ last'.ok)
                 => /\ normalizedOriginal \in DOMAIN mPathMappings'
                    /\ mPathMappings'[normalizedOriginal] = normalizedVirtual
              /\ ~last'.ok => UNCHANGED <<mPathMappings, mIsInitialized, lifecycle,
                                          hookIsInitialized, mHookManager>>
      ]_vars

\* on an Active facade with rules, addPathMapping was refused because the virtual
\* path is empty
FailedMappingCallWitness ==
    /\ last.op = "addPathMapping"
    /\ ~last.ok
    /\ mIsInitialized
    /\ mPathMappings # EmptyMap
    /\ normalizePath(last.path) # <<>>
    /\ normalizePath(last.path2) = <<>>

\* C17: removePathMapping(P) returns true exactly when the facade is Active and
\* a rule's prefix equals normalizePath(P); then that rule alone leaves the
\* table, and every other rule, a longer or a shorter prefix included, stays as
\* it was.  Otherwise the table is unchanged.
RemoveExactRuleOnly ==
    [][(last'.op = "removePathMapping" /\ last' # last) =>
          LET normalizedPath == normalizePath(last'.path)
          IN  /\ last'.ok <=> (mIsInitialized /\ normalizedPath \in DOMAIN mPathMappings)
              /\ DOMAIN mPathMappings' = IF last'.ok
                                         THEN DOMAIN mPathMappings \ {normalizedPath}
                                         ELSE DOMAIN mPathMappings
              /\ \A k \in DOMAIN mPathMappings' : mPathMappings'[k] = mPathMappings[k]
      ]_vars

\* a rule was removed and a rule whose prefix extends the removed one is still
\* in the table
RemoveExactRuleOnlyWitness ==
    /\ last.op = "removePathMapping"
    /\ last.ok
    /\ \E k \in DOMAIN mPathMappings : IsPrefixOf(normalizePath(last.path), k)

\* p has no backslash and no two separators in a row
CanonicalSeparators(p) ==
    /\ \A i \in 1..Len(p) : p[i] # "\\"
    /\ \A i \in 1..(Len(p) - 1) : ~(p[i] = "/" /\ p[i + 1] = "/")

\* p is a normalized absolute path as the claim words it
IsNormalizedAbsolute(p) ==
    /\ p # <<>>
    /\ p[1] = "/"
    /\ CanonicalSeparators(p)
    /\ p[Len(p)] # "/"

\* p is non-empty, has canonical separators and no trailing separator, the
\* root path "/" apart
IsNormalized(p) ==
    /\ p # <<>>
    /\ CanonicalSeparators(p)
    /\ p[Len(p)] = "/" => p = <<"/">>

\* p begins with a separator
StartsWithSeparator(p) == p # <<>> /\ p[1] \in {"/", "\\"}

\* C18: every original and every virtual prefix in the rule table is non-empty,
\* starts with "/", has no backslash, no duplicate separators and no trailing
\* separator.
StoredRulesNormalizedAbsolute ==
    \A k \in DOMAIN mPathMappings :
        IsNormalizedAbsolute(k) /\ IsNormalizedAbsolute(mPathMappings[k])

\* what addPathMapping does establish: every original and every virtual prefix
\* in the rule table is non-empty, has no backslash, no duplicate separators and
\* no trailing separator unless it is the root "/"; the rule a successful
\* addPathMapping stored starts with "/" on each side whose given path began
\* with a separator.
StoredRulesNormalized ==
    /\ \A k \in DOMAIN mPathMappings :
          IsNormalized(k) /\ IsNormalized(mPathMappings[k])
    /\ (last.op = "addPathMapping" /\ last.ok) =>
          LET k == normalizePath(last.path)
          IN  /\ k \in DOMAIN mPathMappings
              /\ StartsWithSeparator(last.path) => k[1] = "/"
              /\ StartsWithSeparator(last.path2) => mPathMappings[k][1] = "/"

\* C19: a redirectPath call changes neither the rule table, the facade's flag
\* nor the registry, and a call with the same input as the call before it
\* returns the same output.
RedirectPathIsPure ==
    [][last'.op = "redirectPath" =>
          /\ UNCHANGED <<mPathMappings, mIsInitialized, lifecycle, hookIsInitialized,
                         mHookManager, patched>>
          /\ (last.op = "redirectPath" /\ last.path = last'.path)
                => last'.out = last.out
          /\ last'.out = redirectPath(mIsInitialized', mPathMappings', last'.path)
      ]_vars

\* on an Active facade with rules a redirectPath call has returned a redirected
\* path
RedirectPathIsPureWitness ==
    /\ last.op = "redirectPath"
    /\ mIsInitialized
    /\ mPathMappings # EmptyMap
    /\ last.out # last.path
    /\ last.out # normalizePath(last.path)

\* C22: an addPathMapping call with valid paths is accepted whether or not
\* initialize() has run, and an initialize() that succeeds keeps the rules that
\* were registered, so redirectPath applies them afterwards.
ConfigureThenInitialize ==
    [][/\ (/\ last'.op = "addPathMapping"
           /\ last' # last
           /\ normalizePath(last'.path) # <<>>
           /\ normalizePath(last'.path2) # <<>>)
          => (/\ last'.ok
              /\ normalizePath(last'.path) \in DOMAIN mPathMappings'
              /\ mPathMappings'[normalizePath(last'.path)] = normalizePath(last'.path2))
       /\ (last'.op = "initialize" /\ last'.ok)
          => (/\ mIsInitialized'
              /\ \A k \in DOMAIN mPathMappings :
                    /\ k \in DOMAIN mPathMappings'
                    /\ mPathMappings'[k] = mPathMappings[k])
      ]_vars

\* C24: the facade's flag is set only by an initialize() call in which the
\* registry's initialize and all eight entry-point steps returned true; an
\* initialize() that returns true either found the facade Active already or ran
\* all eight steps with success, and one that returns false leaves the flag
\* reset.
AllOrNothingInterception ==
    [][/\ (~mIsInitialized /\ mIsInitialized')
          => (/\ last'.op = "initialize"
              /\ last'.ok
              /\ last'.steps = Len(EntryPointOrder)
              /\ hookIsInitialized')
       /\ (last'.op = "initialize" /\ last'.ok)
          => (/\ mIsInitialized'
              /\ mIsInitialized \/ last'.steps = Len(EntryPointOrder))
       /\ (last'.op = "initialize" /\ ~last'.ok)
          => (~mIsInitialized' /\ last'.steps < Len(EntryPointOrder))
      ]_vars

\* initialize() has returned true after running every step
AllOrNothingInterceptionWitness ==
    /\ last.op = "initialize"
    /\ last.ok
    /\ last.steps = Len(EntryPointOrder)
    /\ mIsInitialized
    /\ hookIsInitialized

\* C25: while the facade is Active the registry is initialized and holds a
\* record for each of the eight entry points: the entry points have eight
\* different targets in the table.
InterceptionThroughRegistry ==
    mIsInitialized =>
        /\ hookIsInitialized
        /\ \E target \in [EntryPointSteps -> DOMAIN mHookManager] :
              \A e1 \in EntryPointSteps, e2 \in EntryPointSteps :
                  e1 # e2 => target[e1] # target[e2]

\* the rules whose original prefix is the normalized path itself or is continued
\* in it by a separator
ComponentMatchingRules(path) ==
    LET n == normalizePath(path)
    IN  {k \in MatchingRules(path) :
            \/ Len(n) = Len(k)
            \/ k[Len(k)] = "/"
            \/ n[Len(k) + 1] = "/"}

-----------------------------------------------------------------------------
(* SubstrateHook driven by one caller *)

facadeVars == <<mIsInitialized, mPathMappings, lifecycle>>

\* SubstrateHook::getInstance()->initialize()
HookInitialize(failAt) ==
    /\ alive
    /\ SubstrateInitialize(failAt)
    /\ last' = HookCall("SubstrateHook::initialize", 0, SubstrateInitializeOk(failAt))
    /\ UNCHANGED <<facadeVars, arch, now, alive, concVars>>

\* SubstrateHook::getInstance()->cleanup()
HookCleanup(crash, failing) ==
    /\ alive
    /\ SubstrateCleanup(crash, failing)
    /\ last' = IF alive' THEN HookCall("SubstrateHook::cleanup", 0, TRUE) ELSE last
    /\ UNCHANGED <<facadeVars, arch, now, concVars>>

\* the record hookMethod registers
HookInfo(targetMethod, hookMethod, backupMethod) ==
    [targetMethod |-> targetMethod, hookMethod |-> hookMethod,
     backupMethod |-> backupMethod, architecture |-> arch, hookTime |-> now]

\* mutant: hookMethod reports success without registering the hook
HookMethodUnrecorded(targetMethod, hookMethod, backupMethod, backendOk) ==
    /\ alive
    /\ LET success == /\ hookIsInitialized
                      /\ targetMethod # nullptr
                      /\ hookMethod # nullptr
                      /\ arch # ARCH_UNKNOWN
                      /\ backendOk
       IN  /\ installed' = IF success THEN installed \cup {targetMethod} ELSE installed
           /\ patched' = IF success THEN patched \cup {targetMethod} ELSE patched
           /\ last' = HookMethodCall(targetMethod, hookMethod, success)
    /\ UNCHANGED <<mHookManager, hookIsInitialized, facadeVars, arch, now, alive, concVars>>

\* mutant: hookMethod does not look at the registry's flag
HookMethodNoInitCheck(targetMethod, hookMethod, backupMethod, backendOk) ==
    /\ alive
    /\ LET success == /\ targetMethod # nullptr
                      /\ hookMethod # nullptr
                      /\ arch # ARCH_UNKNOWN
                      /\ backendOk
       IN  /\ mHookManager' =
                 IF success
                 THEN MapPut(mHookManager, targetMethod,
                             HookInfo(targetMethod, hookMethod, backupMethod))
                 ELSE mHookManager
           /\ installed' = IF success THEN installed \cup {targetMethod} ELSE installed
           /\ patched' = IF success THEN patched \cup {targetMethod} ELSE patched
           /\ last' = HookMethodCall(targetMethod, hookMethod, success)
    /\ UNCHANGED <<hookIsInitialized, facadeVars, arch, now, alive, concVars>>

\* mutant: hookMethod goes to the backend without looking at the addresses
HookMethodNoNullCheck(targetMethod, hookMethod, backupMethod, backendOk) ==
    /\ alive
    /\ LET success == /\ hookIsInitialized
                      /\ arch # ARCH_UNKNOWN
                      /\ backendOk
       IN  /\ mHookManager' =
                 IF success
                 THEN MapPut(mHookManager, targetMethod,
                             HookInfo(targetMethod, hookMethod, backupMethod))
                 ELSE mHookManager
           /\ installed' = IF success THEN installed \cup {targetMethod} ELSE installed
           /\ patched' = IF success THEN patched \cup {targetMethod} ELSE patched
           /\ last' = HookMethodCall(targetMethod, hookMethod, success)
    /\ UNCHANGED <<hookIsInitialized, facadeVars, arch, now, alive, concVars>>

\* SubstrateHook::hookMethod; backendOk is the result of hookMethodARM,
\* hookMethodARM64, hookMethodX86 or hookMethodX86_64
HookMethod(targetMethod, hookMethod, backupMethod, backendOk) ==
    /\ alive
    /\ LET success == /\ hookIsInitialized
                      /\ targetMethod # nullptr
                      /\ hookMethod # nullptr
                      /\ arch # ARCH_UNKNOWN
                      /\ backendOk
       IN  /\ mHookManager' =
                 IF success
                 THEN MapPut(mHookManager, targetMethod,
                             HookInfo(targetMethod, hookMethod, backupMethod))
                 ELSE mHookManager
           /\ installed' = IF success THEN installed \cup {targetMethod} ELSE installed
           /\ patched' = IF success THEN patched \cup {targetMethod} ELSE patched
           /\ last' = HookMethodCall(targetMethod, hookMethod, success)
    /\ UNCHANGED <<hookIsInitialized, facadeVars, arch, now, alive, concVars>>

\* mutant: unhookMethod erases the record before it looks at the backend's result
UnhookMethodDropsRecord(targetMethod, backendOk) ==
    /\ alive
    /\ LET found == /\ hookIsInitialized
                    /\ targetMethod \in DOMAIN mHookManager
           success == /\ found
                      /\ mHookManager[targetMethod].architecture # ARCH_UNKNOWN
                      /\ backendOk
       IN  /\ mHookManager' = IF found THEN MapErase(mHookManager, targetMethod)
                              ELSE mHookManager
           /\ installed' = IF success THEN installed \ {targetMethod} ELSE installed
           /\ patched' = IF success THEN patched \ {targetMethod} ELSE patched
           /\ last' = HookCall("unhookMethod", targetMethod, success)
    /\ UNCHANGED <<hookIsInitialized, facadeVars, arch, now, alive, concVars>>

\* SubstrateHook::unhookMethod; backendOk is the result of unhookMethodARM,
\* unhookMethodARM64, unhookMethodX86 or unhookMethodX86_64
UnhookMethod(targetMethod, backendOk) ==
    /\ alive
    /\ LET success == /\ hookIsInitialized
                      /\ targetMethod \in DOMAIN mHookManager
                      /\ mHookManager[targetMethod].architecture # ARCH_UNKNOWN
                      /\ backendOk
       IN  /\ mHookManager' = IF success THEN MapErase(mHookManager, targetMethod)
                              ELSE mHookManager
           /\ installed' = IF success THEN installed \ {targetMethod} ELSE installed
           /\ patched' = IF success THEN patched \ {targetMethod} ELSE patched
           /\ last' = HookCall("unhookMethod", targetMethod, success)
    /\ UNCHANGED <<hookIsInitialized, facadeVars, arch, now, alive, concVars>>

\* SubstrateHook::isMethodHooked
isMethodHooked(targetMethod) ==
    IF ~hookIsInitialized THEN FALSE
    ELSE targetMethod \in DOMAIN mHookManager

\* a call of SubstrateHook::isMethodHooked
IsMethodHooked(targetMethod) ==
    /\ alive
    /\ last' = HookCall("isMethodHooked", targetMethod, isMethodHooked(targetMethod))
    /\ UNCHANGED <<hookIsInitialized, mHookManager, installed, patched, facadeVars, arch,
                   now, alive, concVars>>

\* CLOCK_MONOTONIC advances
Tick ==
    /\ alive
    /\ now < MaxClock
    /\ now' = now + 1
    /\ UNCHANGED <<hookIsInitialized, mHookManager, installed, patched, facadeVars, arch,
                   alive, last, concVars>>

InitHook ==
    /\ mIsInitialized = FALSE
    /\ mPathMappings = EmptyMap
    /\ hookIsInitialized = FALSE
    /\ mHookManager = EmptyMap
    /\ arch \in Architectures
    /\ now = 0
    /\ alive = TRUE
    /\ lifecycle = "constructed"
    /\ installed = {}
    /\ patched = {}
    /\ last = NoCall
    /\ mMutex = 0
    /\ pc = [t \in Threads |-> "idle"]
    /\ frame = [t \in Threads |-> NoFrame]
    /\ sInstance = [c \in Classes |-> nullptr]
    /\ sMutex = [c \in Classes |-> 0]
    /\ instances = [c \in Classes |-> 0]

NextHook ==
    \/ \E failAt \in FrameworkSteps \cup {"none"} : HookInitialize(failAt)
    \/ \E crash \in BOOLEAN, failing \in SUBSET DOMAIN mHookManager :
          HookCleanup(crash, failing)
    \/ \E t \in Targets, in \in HookInputs, ok \in BOOLEAN :
          HookMethod(t, in[1], in[2], ok)
    \/ \E t \in Targets, ok \in BOOLEAN : UnhookMethod(t, ok)
    \/ \E t \in Targets : IsMethodHooked(t)
    \/ Tick
    \/ \E failAt \in FailInputs : Initialize(failAt)
    \/ \E crash \in BOOLEAN, failing \in SUBSET DOMAIN mHookManager :
          Cleanup(crash, failing)

SpecHook == InitHook /\ [][NextHook]_vars

-----------------------------------------------------------------------------
(* Properties of the registry *)

\* C3: hookMethod on a target that already has a record fails and leaves the
\* record as the first install wrote it.
NoDoubleHook ==
    [][(/\ hookIsInitialized
        /\ last'.op = "hookMethod"
        /\ last'.target \in DOMAIN mHookManager)
       => (/\ ~last'.ok
           /\ mHookManager' = mHookManager)]_vars

\* C5: isMethodHooked(t) is true exactly when the latest successful call on t
\* was a hookMethod.
HookTableConsistency ==
    \A t \in Targets : isMethodHooked(t) <=> t \in installed

HookTableConsistencyWitness ==
    /\ last.op = "unhookMethod"
    /\ last.ok
    /\ ~isMethodHooked(last.target)
    /\ \E t \in Targets : isMethodHooked(t)

\* C12: an unhookMethod call returns true exactly when the target has a record
\* and the backend's reversal succeeded; then that record, and no other, leaves
\* the table.  A call that returns false leaves the table as it was.
UnhookRemovesOnlyOnSuccess ==
    [][(last'.op = "unhookMethod" /\ last' # last) =>
          LET t == last'.target
              reversed == t \in patched /\ t \notin patched'
          IN  /\ last'.ok <=> (hookIsInitialized /\ t \in DOMAIN mHookManager /\ reversed)
              /\ last'.ok =>
                    /\ DOMAIN mHookManager' = DOMAIN mHookManager \ {t}
                    /\ \A u \in DOMAIN mHookManager' : mHookManager'[u] = mHookManager[u]
              /\ ~last'.ok => mHookManager' = mHookManager
      ]_vars

\* unhookMethod has failed on a hooked target (the reversal failed) and the
\* record is still there
UnhookRemovesOnlyOnSuccessWitness ==
    /\ last.op = "unhookMethod"
    /\ ~last.ok
    /\ last.target \in DOMAIN mHookManager
    /\ last.target \in patched

\* C13: a teardown of the registry that has begun hands every record that was
\* in the table to the uninstall step and only then clears the table: it runs
\* to its end, past failed and successful reversals alike, and leaves the table
\* empty and the registry uninitialized.
TeardownAttemptsEveryRecord ==
    [][(alive /\ hookIsInitialized /\ (~hookIsInitialized' \/ ~alive'))
          => (alive' /\ ~hookIsInitialized' /\ mHookManager' = EmptyMap)]_vars

NullAddressRejected ==
    [][/\ (/\ last'.op = "hookMethod"
           /\ last' # last
           /\ (last'.target = nullptr \/ last'.hook = nullptr))
          => (~last'.ok /\ UNCHANGED <<mHookManager, patched>>)
       /\ \A t \in DOMAIN mHookManager' :
             t # nullptr /\ mHookManager'[t].hookMethod # nullptr
       /\ nullptr \notin patched'
      ]_vars

\* on an initialized registry with records, hookMethod was refused for a null
\* replacement address on a target that has no record
NullAddressRejectedWitness ==
    /\ last.op = "hookMethod"
    /\ last.hook = nullptr
    /\ last.target # nullptr
    /\ ~last.ok
    /\ hookIsInitialized
    /\ arch # ARCH_UNKNOWN
    /\ mHookManager # EmptyMap
    /\ last.target \notin DOMAIN mHookManager

\* C29: a cleanup() of the Active facade that returns leaves the registry
\* uninitialized with an empty table, whoever installed the hooks, so that
\* isMethodHooked is false for every target; and a hookMethod on the registry
\* while it is uninitialized fails and registers nothing.
FacadeCleanupTearsDownRegistry ==
    [][/\ (mIsInitialized /\ last'.op = "cleanup" /\ last' # last) =>
            /\ ~hookIsInitialized'
            /\ mHookManager' = EmptyMap
            /\ \A t \in Targets : ~isMethodHooked(t)'
       /\ (~hookIsInitialized /\ last'.op = "hookMethod" /\ last' # last) =>
            /\ ~last'.ok
            /\ ~hookIsInitialized'
            /\ mHookManager' = mHookManager]_vars

\* cleanup() of the facade has returned and the registry is down; a patch that
\* a direct hookMethod put in place, and whose removal failed, is still there
FacadeCleanupTearsDownRegistryWitness ==
    /\ alive
    /\ last.op = "cleanup"
    /\ lifecycle = "cleaned"
    /\ ~hookIsInitialized
    /\ mHookManager = EmptyMap
    /\ patched # {}

-----------------------------------------------------------------------------
(* The registry and the facade driven by one caller *)

\* the operations of both classes; the clock, which only stamps the records,
\* stands still
NextBoth ==
    \/ \E failAt \in FrameworkSteps \cup {"none"} : HookInitialize(failAt)
    \/ \E crash \in BOOLEAN, failing \in SUBSET DOMAIN mHookManager :
          HookCleanup(crash, failing)
    \/ \E t \in Targets, in \in HookInputs, ok \in BOOLEAN :
          HookMethod(t, in[1], in[2], ok)
    \/ \E t \in Targets, ok \in BOOLEAN : UnhookMethod(t, ok)
    \/ \E t \in Targets : IsMethodHooked(t)
    \/ \E failAt \in FailInputs : Initialize(failAt)
    \/ \E crash \in BOOLEAN, failing \in SUBSET DOMAIN mHookManager :
          Cleanup(crash, failing)
    \/ AddPathMapping(Data, VData)
    \/ RemovePathMapping(Data)

SpecBoth == InitHook /\ [][NextBoth]_vars

\* C23: hookMethod and unhookMethod on a registry that is not initialized, and
\* addPathMapping and removePathMapping on a facade that is not initialized,
\* return false and leave the registry table, the backend patches and the rule
\* table as they were; while the registry is not initialized isMethodHooked
\* returns false for every target.
NotInitializedRejected ==
    [][/\ (/\ last'.op \in {"hookMethod", "unhookMethod"}
           /\ last' # last
           /\ ~hookIsInitialized)
          => (~last'.ok /\ UNCHANGED <<mHookManager, patched, mPathMappings>>)
       /\ (/\ last'.op \in {"addPathMapping", "removePathMapping"}
           /\ last' # last
           /\ ~mIsInitialized)
          => (~last'.ok /\ UNCHANGED <<mHookManager, patched, mPathMappings>>)
       /\ (last'.op = "isMethodHooked" /\ last' # last /\ ~hookIsInitialized)
          => ~last'.ok
       /\ ~hookIsInitialized => \A t \in Targets : ~isMethodHooked(t)
      ]_vars

\* after a whole life of the facade, hookMethod with valid addresses was refused
\* by the registry that cleanup() had left uninitialized
NotInitializedRejectedWitness ==
    /\ last.op = "hookMethod"
    /\ last.target # nullptr
    /\ last.hook # nullptr
    /\ arch # ARCH_UNKNOWN
    /\ ~last.ok
    /\ ~hookIsInitialized
    /\ lifecycle = "cleaned"

-----------------------------------------------------------------------------
(* Threads calling addPathMapping, removePathMapping and redirectPath.  A call *)
(* is a sequence of steps; the statements run under one lock_guard on mMutex   *)
(* are separate steps so that another thread may run between them.  The first  *)
(* step of a call is its read of mIsInitialized.  initialize() is one step of  *)
(* the controller; cleanup() is not part of this specification.               *)

\* paths the threads give to redirectPath
ConcPathInputs == {<<"/", "a", "/", "a", "/">>, <<"\\", "a", "a">>}

\* paths the threads give to addPathMapping
ConcAddInputs == {<<<<"/", "a">>, <<"/", "v">>>>,
                  <<<<"/", "a", "/", "a", "/">>, <<"/", "w">>>>,
                  <<<<"/", "a">>, <<>>>>}

\* paths the threads give to removePathMapping
ConcRemoveInputs == {<<"/", "a">>, <<"/", "a", "\\", "a">>}

seqVars == <<hookIsInitialized, mHookManager, arch, now, alive, lifecycle, installed,
            patched, last, instVars>>

\* a redirectPath call that is in flight sees the table change
Disturb(t) ==
    [u \in Threads |->
        IF u # t /\ frame[u].op = "redirectPath"
        THEN [frame[u] EXCEPT !.stable = FALSE]
        ELSE frame[u]]

\* the first key after cursor in the iteration order of mPathMappings
KeysAfter(cursor) == {k \in DOMAIN mPathMappings : StringLess(cursor, k)}

\* redirectPath, lines 150-153: the flag is read without the lock
RpCall(t, originalPath) ==
    /\ alive /\ pc[t] = "idle"
    /\ frame' = [frame EXCEPT ![t] =
                    [op |-> "redirectPath", path |-> originalPath,
                     normalizedPath |-> <<>>, cursor |-> <<>>, best |-> NoBest,
                     out |-> originalPath, stable |-> TRUE]]
    /\ pc' = [pc EXCEPT ![t] = IF mIsInitialized THEN "rp_lock" ELSE "rp_return"]
    /\ UNCHANGED <<mIsInitialized, mPathMappings, mMutex, seqVars>>

\* mutant: redirectPath scans without taking mMutex
RpLockNoMutex(t) ==
    /\ alive /\ pc[t] = "rp_lock"
    /\ frame' = [frame EXCEPT ![t].normalizedPath = normalizePath(frame[t].path)]
    /\ pc' = [pc EXCEPT ![t] = "rp_scan"]
    /\ UNCHANGED <<mIsInitialized, mPathMappings, mMutex, seqVars>>

\* redirectPath, lines 156-163: lock_guard, normalizePath, the loop's locals
RpLock(t) ==
    /\ alive /\ pc[t] = "rp_lock"
    /\ mMutex = 0
    /\ mMutex' = t
    /\ frame' = [frame EXCEPT ![t].normalizedPath = normalizePath(frame[t].path)]
    /\ pc' = [pc EXCEPT ![t] = "rp_scan"]
    /\ UNCHANGED <<mIsInitialized, mPathMappings, seqVars>>

\* redirectPath, lines 165-175: one iteration of the loop
RpScan(t) ==
    /\ alive /\ pc[t] = "rp_scan"
    /\ KeysAfter(frame[t].cursor) # {}
    /\ LET k == FirstKey(KeysAfter(frame[t].cursor))
       IN  frame' = [frame EXCEPT
                        ![t].cursor = k,
                        ![t].best = ScanRule(frame[t].best, k, mPathMappings[k],
                                             frame[t].normalizedPath)]
    /\ UNCHANGED <<pc, mIsInitialized, mPathMappings, mMutex, seqVars>>

\* redirectPath, lines 177-185: the loop is over, the result is built and the
\* lock_guard releases mMutex
RpFinish(t) ==
    /\ alive /\ pc[t] = "rp_scan"
    /\ KeysAfter(frame[t].cursor) = {}
    /\ frame' = [frame EXCEPT ![t].out = ScanResult(frame[t].best, frame[t].path,
                                                    frame[t].normalizedPath)]
    /\ mMutex' = IF mMutex = t THEN 0 ELSE mMutex
    /\ pc' = [pc EXCEPT ![t] = "rp_return"]
    /\ UNCHANGED <<mIsInitialized, mPathMappings, seqVars>>

\* the caller has the result
Return(t) ==
    /\ alive /\ pc[t] \in {"rp_return", "ap_return", "rm_return"}
    /\ pc' = [pc EXCEPT ![t] = "idle"]
    /\ frame' = [frame EXCEPT ![t] = NoFrame]
    /\ UNCHANGED <<mIsInitialized, mPathMappings, mMutex, seqVars>>

\* addPathMapping, lines 92-96
ApCall(t, originalPath, virtualPath) ==
    /\ alive /\ pc[t] = "idle"
    /\ frame' = [frame EXCEPT ![t] =
                    [op |-> "addPathMapping", path |-> originalPath,
                     path2 |-> virtualPath, ok |-> FALSE]]
    /\ pc' = [pc EXCEPT ![t] = IF mIsInitialized THEN "ap_lock" ELSE "ap_return"]
    /\ UNCHANGED <<mIsInitialized, mPathMappings, mMutex, seqVars>>

\* addPathMapping, lines 99-109: lock_guard, normalizePath, the validity check
ApLock(t) ==
    /\ alive /\ pc[t] = "ap_lock"
    /\ mMutex = 0
    /\ IF normalizePath(frame[t].path) = <<>> \/ normalizePath(frame[t].path2) = <<>>
       THEN /\ pc' = [pc EXCEPT ![t] = "ap_return"]
            /\ UNCHANGED mMutex
       ELSE /\ pc' = [pc EXCEPT ![t] = "ap_insert"]
            /\ mMutex' = t
    /\ UNCHANGED <<frame, mIsInitialized, mPathMappings, seqVars>>

\* mutant: addPathMapping returns without releasing mMutex
ApInsertKeepsMutex(t) ==
    /\ alive /\ pc[t] = "ap_insert"
    /\ mPathMappings' = MapPut(mPathMappings, normalizePath(frame[t].path),
                               normalizePath(frame[t].path2))
    /\ frame' = [Disturb(t) EXCEPT ![t].ok = TRUE]
    /\ pc' = [pc EXCEPT ![t] = "ap_return"]
    /\ UNCHANGED <<mMutex, mIsInitialized, seqVars>>

\* addPathMapping, lines 112-115: the insertion, then the lock_guard releases
ApInsert(t) ==
    /\ alive /\ pc[t] = "ap_insert"
    /\ mPathMappings' = MapPut(mPathMappings, normalizePath(frame[t].path),
                               normalizePath(frame[t].path2))
    /\ frame' = [Disturb(t) EXCEPT ![t].ok = TRUE]
    /\ mMutex' = 0
    /\ pc' = [pc EXCEPT ![t] = "ap_return"]
    /\ UNCHANGED <<mIsInitialized, seqVars>>

\* removePathMapping, lines 123-127
RmCall(t, originalPath) ==
    /\ alive /\ pc[t] = "idle"
    /\ frame' = [frame EXCEPT ![t] =
                    [op |-> "removePathMapping", path |-> originalPath, ok |-> FALSE]]
    /\ pc' = [pc EXCEPT ![t] = IF mIsInitialized THEN "rm_lock" ELSE "rm_return"]
    /\ UNCHANGED <<mIsInitialized, mPathMappings, mMutex, seqVars>>

\* removePathMapping, lines 130-135 and 139-141: lock_guard, normalizePath, find
RmLock(t) ==
    /\ alive /\ pc[t] = "rm_lock"
    /\ mMutex = 0
    /\ IF normalizePath(frame[t].path) \in DOMAIN mPathMappings
       THEN /\ pc' = [pc EXCEPT ![t] = "rm_erase"]
            /\ mMutex' = t
       ELSE /\ pc' = [pc EXCEPT ![t] = "rm_return"]
            /\ UNCHANGED mMutex
    /\ UNCHANGED <<frame, mIsInitialized, mPathMappings, seqVars>>

\* removePathMapping, lines 136-138: the erase, then the lock_guard releases
RmErase(t) ==
    /\ alive /\ pc[t] = "rm_erase"
    /\ mPathMappings' = MapErase(mPathMappings, normalizePath(frame[t].path))
    /\ frame' = [Disturb(t) EXCEPT ![t].ok = TRUE]
    /\ mMutex' = 0
    /\ pc' = [pc EXCEPT ![t] = "rm_return"]
    /\ UNCHANGED <<mIsInitialized, seqVars>>

NextMap ==
    \/ Initialize("none")
    \/ \E t \in Threads :
          \/ \E p \in ConcPathInputs : RpCall(t, p)
          \/ RpLock(t)
          \/ RpScan(t)
          \/ RpFinish(t)
          \/ \E in \in ConcAddInputs : ApCall(t, in[1], in[2])
          \/ ApLock(t)
          \/ ApInsert(t)
          \/ \E p \in ConcRemoveInputs : RmCall(t, p)
          \/ RmLock(t)
          \/ RmErase(t)
          \/ Return(t)

SpecMap == Init /\ [][NextMap]_vars

\* C10: a redirectPath scan never overlaps an insertion by addPathMapping or an
\* erase by removePathMapping, the thread doing any of them holds mMutex, and a
\* redirectPath call during which the rule table did not change returns what the
\* one-step redirectPath returns for the table.
ConcurrentResolveSafety ==
    \A t \in Threads :
        /\ pc[t] \in {"rp_scan", "ap_insert", "rm_erase"} =>
              /\ mMutex = t
              /\ \A u \in Threads \ {t} :
                    pc[u] \notin {"rp_scan", "ap_insert", "rm_erase"}
        /\ (pc[t] = "rp_return" /\ frame[t].stable) =>
              frame[t].out = redirectPath(mIsInitialized, mPathMappings, frame[t].path)

ConcurrentResolveSafetyWitness ==
    \E t \in Threads, u \in Threads :
        /\ t # u
        /\ pc[t] = "rp_return" /\ pc[u] = "rp_return"
        /\ frame[t].stable /\ frame[u].stable
        /\ frame[t].path # frame[u].path
        /\ frame[t].out # frame[t].path
        /\ frame[u].out # frame[u].path
        /\ Cardinality(DOMAIN mPathMappings) = 2

-----------------------------------------------------------------------------
(* Threads calling hookMethod, unhookMethod and cleanup of the registry.  The  *)
(* registry's operations take no lock (SubstrateHook has no per-instance       *)
(* mutex), so each statement group is a step other threads may run between.    *)
(* A thread that uses an iterator or reference to an element another thread    *)
(* has erased either goes on or brings the process down.                       *)

\* target addresses the threads use
ConcTargets == {1, 2}

\* <<hookMethod, backupMethod>> addresses the threads give to hookMethod
ConcHookInputs == {<<nullptr, 1>>, <<2, 1>>}

regRest == <<mIsInitialized, mPathMappings, lifecycle, arch, now, last, mMutex,
             instVars>>

\* hookMethod, lines 95-99: the flag is read
HmCall(t, targetMethod, hookMethod, backupMethod, backendOk) ==
    /\ alive /\ pc[t] = "idle"
    /\ frame' = [frame EXCEPT ![t] =
                    [op |-> "hookMethod", target |-> targetMethod, hook |-> hookMethod,
                     backup |-> backupMethod, backendOk |-> backendOk, ok |-> FALSE]]
    /\ pc' = [pc EXCEPT ![t] = IF hookIsInitialized THEN "hm_backend" ELSE "hm_return"]
    /\ UNCHANGED <<hookIsInitialized, mHookManager, installed, patched, alive, regRest>>

\* hookMethod, lines 104-131: the address check, getArchitecture, the backend
HmBackend(t) ==
    /\ alive /\ pc[t] = "hm_backend"
    /\ LET success == /\ frame[t].target # nullptr
                      /\ frame[t].hook # nullptr
                      /\ arch # ARCH_UNKNOWN
                      /\ frame[t].backendOk
       IN  /\ pc' = [pc EXCEPT ![t] = IF success THEN "hm_record" ELSE "hm_return"]
           /\ patched' = IF success THEN patched \cup {frame[t].target} ELSE patched
    /\ UNCHANGED <<frame, hookIsInitialized, mHookManager, installed, alive, regRest>>

\* hookMethod, lines 133-147: the record is written
HmRecord(t) ==
    /\ alive /\ pc[t] = "hm_record"
    /\ mHookManager' = MapPut(mHookManager, frame[t].target,
                              HookInfo(frame[t].target, frame[t].hook, frame[t].backup))
    /\ installed' = installed \cup {frame[t].target}
    /\ frame' = [frame EXCEPT ![t].ok = TRUE]
    /\ pc' = [pc EXCEPT ![t] = "hm_return"]
    /\ UNCHANGED <<hookIsInitialized, patched, alive, regRest>>

\* unhookMethod, lines 155-159: the flag is read
UhCall(t, targetMethod, backendOk) ==
    /\ alive /\ pc[t] = "idle"
    /\ frame' = [frame EXCEPT ![t] =
                    [op |-> "unhookMethod", target |-> targetMethod,
                     backendOk |-> backendOk, ok |-> FALSE]]
    /\ pc' = [pc EXCEPT ![t] = IF hookIsInitialized THEN "uh_find" ELSE "uh_return"]
    /\ UNCHANGED <<hookIsInitialized, mHookManager, installed, patched, alive, regRest>>

\* unhookMethod, lines 164-168: find
UhFind(t) ==
    /\ alive /\ pc[t] = "uh_find"
    /\ pc' = [pc EXCEPT ![t] = IF frame[t].target \in DOMAIN mHookManager
                               THEN "uh_backend" ELSE "uh_return"]
    /\ UNCHANGED <<frame, hookIsInitialized, mHookManager, installed, patched, alive, regRest>>

\* unhookMethod, lines 170-190: the record's architecture is read through the
\* reference and the backend is called
UhBackend(t, crash) ==
    /\ alive /\ pc[t] = "uh_backend"
    /\ IF crash /\ frame[t].target \notin DOMAIN mHookManager
       THEN alive' = FALSE /\ UNCHANGED <<pc, patched>>
       ELSE /\ pc' = [pc EXCEPT ![t] = IF frame[t].backendOk THEN "uh_erase"
                                       ELSE "uh_return"]
            /\ patched' = IF frame[t].backendOk THEN patched \ {frame[t].target}
                          ELSE patched
            /\ UNCHANGED alive
    /\ UNCHANGED <<frame, hookIsInitialized, mHookManager, installed, regRest>>

\* unhookMethod, lines 192-197: erase(it)
UhErase(t, crash) ==
    /\ alive /\ pc[t] = "uh_erase"
    /\ IF crash /\ frame[t].target \notin DOMAIN mHookManager
       THEN alive' = FALSE /\ UNCHANGED <<pc, frame, mHookManager, installed, patched>>
       ELSE /\ mHookManager' = MapErase(mHookManager, frame[t].target)
            /\ installed' = installed \ {frame[t].target}
            /\ frame' = [frame EXCEPT ![t].ok = TRUE]
            /\ pc' = [pc EXCEPT ![t] = "uh_return"]
            /\ UNCHANGED <<alive, patched>>
    /\ UNCHANGED <<hookIsInitialized, regRest>>

\* cleanup, lines 70-73: the flag is read
CuCall(t) ==
    /\ alive /\ pc[t] = "idle"
    /\ frame' = [frame EXCEPT ![t] = [op |-> "cleanup", cursor |-> 0]]
    /\ pc' = [pc EXCEPT ![t] = IF hookIsInitialized THEN "cu_loop" ELSE "cu_return"]
    /\ UNCHANGED <<hookIsInitialized, mHookManager, installed, patched, alive, regRest>>

\* cleanupAllHooks, lines 239-241: one iteration, a whole unhookMethod call on
\* the next record; after an erase the loop steps from an invalidated iterator
CuLoop(t, backendOk, crash) ==
    /\ alive /\ pc[t] = "cu_loop"
    /\ \E k \in DOMAIN mHookManager :
          /\ k > frame[t].cursor
          /\ \A j \in DOMAIN mHookManager : j > frame[t].cursor => k <= j
          /\ IF crash /\ backendOk
             THEN alive' = FALSE /\ UNCHANGED <<frame, mHookManager, installed, patched>>
             ELSE /\ frame' = [frame EXCEPT ![t].cursor = k]
                  /\ mHookManager' = IF backendOk THEN MapErase(mHookManager, k)
                                     ELSE mHookManager
                  /\ installed' = IF backendOk THEN installed \ {k} ELSE installed
                  /\ patched' = IF backendOk THEN patched \ {k} ELSE patched
                  /\ UNCHANGED alive
    /\ UNCHANGED <<pc, hookIsInitialized, regRest>>

\* cleanupAllHooks, line 243: the loop is over, the table is cleared
CuClear(t) ==
    /\ alive /\ pc[t] = "cu_loop"
    /\ \A j \in DOMAIN mHookManager : j <= frame[t].cursor
    /\ mHookManager' = EmptyMap
    /\ installed' = {}
    /\ pc' = [pc EXCEPT ![t] = "cu_flag"]
    /\ UNCHANGED <<frame, hookIsInitialized, patched, alive, regRest>>

\* cleanup, lines 81-88: the flag is reset
CuFlag(t) ==
    /\ alive /\ pc[t] = "cu_flag"
    /\ hookIsInitialized' = FALSE
    /\ pc' = [pc EXCEPT ![t] = "cu_return"]
    /\ UNCHANGED <<frame, mHookManager, installed, patched, alive, regRest>>

\* the caller has the result
RegReturn(t) ==
    /\ alive /\ pc[t] \in {"hm_return", "uh_return", "cu_return"}
    /\ pc' = [pc EXCEPT ![t] = "idle"]
    /\ frame' = [frame EXCEPT ![t] = NoFrame]
    /\ UNCHANGED <<hookIsInitialized, mHookManager, installed, patched, alive, regRest>>

NextReg ==
    \/ HookInitialize("none")
    \/ \E t \in Threads :
          \/ \E x \in ConcTargets, in \in ConcHookInputs, ok \in BOOLEAN :
                HmCall(t, x, in[1], in[2], ok)
          \/ HmBackend(t)
          \/ HmRecord(t)
          \/ \E x \in ConcTargets, ok \in BOOLEAN : UhCall(t, x, ok)
          \/ UhFind(t)
          \/ \E crash \in BOOLEAN : UhBackend(t, crash)
          \/ \E crash \in BOOLEAN : UhErase(t, crash)
          \/ CuCall(t)
          \/ \E ok \in BOOLEAN, crash \in BOOLEAN : CuLoop(t, ok, crash)
          \/ CuClear(t)
          \/ CuFlag(t)
          \/ RegReturn(t)

SpecReg == InitHook /\ [][NextReg]_vars

\* thread t is inside the body of hookMethod, unhookMethod or cleanup
InRegistryOperation(t) ==
    pc[t] \in {"hm_backend", "hm_record", "uh_find", "uh_backend", "uh_erase",
               "cu_loop", "cu_flag"}

\* C9: no two threads are inside hookMethod, unhookMethod or cleanup of the
\* registry at once; in particular no thread runs in the registry while another
\* has applied the backend patch and not yet written its record.
RegistryMutualExclusion ==
    \A t \in Threads, u \in Threads :
        (t # u /\ InRegistryOperation(t)) => ~InRegistryOperation(u)

-----------------------------------------------------------------------------
(* Threads calling getInstance() of IORelocator and of SubstrateHook.  sInstance *)
(* is a plain pointer: the unlocked read at the top of getInstance races with    *)
(* the write under sMutex, so it yields the pointer's present value or still the *)
(* null it held before.  The reads under sMutex are ordered by the mutex.        *)

instRest == <<mIsInitialized, mPathMappings, hookIsInitialized, mHookManager, arch, now,
              alive, lifecycle, installed, patched, last, mMutex>>

\* getInstance, first check: sInstance is read without the lock
GiCall(t, class, seen) ==
    /\ alive /\ pc[t] = "idle"
    /\ seen \in {sInstance[class], nullptr}
    /\ frame' = [frame EXCEPT ![t] =
                    [op |-> "getInstance", class |-> class, locked |-> seen = nullptr,
                     result |-> sInstance[class]]]
    /\ pc' = [pc EXCEPT ![t] = IF seen = nullptr THEN "gi_lock" ELSE "gi_return"]
    /\ UNCHANGED <<instVars, instRest>>

\* getInstance: std::lock_guard<std::mutex> lock(sMutex)
GiLock(t) ==
    /\ alive /\ pc[t] = "gi_lock"
    /\ sMutex[frame[t].class] = 0
    /\ sMutex' = [sMutex EXCEPT ![frame[t].class] = t]
    /\ pc' = [pc EXCEPT ![t] = "gi_new"]
    /\ UNCHANGED <<frame, sInstance, instances, instRest>>

\* mutant: the second check is left out
GiNewUnchecked(t) ==
    /\ alive /\ pc[t] = "gi_new"
    /\ LET class == frame[t].class
       IN  /\ instances' = [instances EXCEPT ![class] = @ + 1]
           /\ sInstance' = [sInstance EXCEPT ![class] = instances[class] + 1]
    /\ pc' = [pc EXCEPT ![t] = "gi_unlock"]
    /\ UNCHANGED <<frame, sMutex, instRest>>

\* getInstance, second check under the lock and the construction; the address of
\* the n-th object constructed is n
GiNew(t) ==
    /\ alive /\ pc[t] = "gi_new"
    /\ LET class == frame[t].class
       IN  IF sInstance[class] = nullptr
           THEN /\ instances' = [instances EXCEPT ![class] = @ + 1]
                /\ sInstance' = [sInstance EXCEPT ![class] = instances[class] + 1]
           ELSE UNCHANGED <<sInstance, instances>>
    /\ pc' = [pc EXCEPT ![t] = "gi_unlock"]
    /\ UNCHANGED <<frame, sMutex, instRest>>

\* getInstance: the lock_guard releases sMutex and sInstance is read for the return
GiUnlock(t) ==
    /\ alive /\ pc[t] = "gi_unlock"
    /\ sMutex' = [sMutex EXCEPT ![frame[t].class] = 0]
    /\ frame' = [frame EXCEPT ![t].result = sInstance[frame[t].class]]
    /\ pc' = [pc EXCEPT ![t] = "gi_return"]
    /\ UNCHANGED <<sInstance, instances, instRest>>

\* the caller has the pointer
GiReturn(t) ==
    /\ alive /\ pc[t] = "gi_return"
    /\ pc' = [pc EXCEPT ![t] = "idle"]
    /\ frame' = [frame EXCEPT ![t] = NoFrame]
    /\ UNCHANGED <<instVars, instRest>>

NextInst ==
    \E t \in Threads :
        \/ \E class \in Classes, seen \in {nullptr, 1} : GiCall(t, class, seen)
        \/ GiLock(t)
        \/ GiNew(t)
        \/ GiUnlock(t)
        \/ GiReturn(t)

SpecInst == Init /\ [][NextInst]_vars

\* C21: for each class at most one object is ever constructed, sInstance is
\* that object once it exists, only the holder of sMutex constructs, and every
\* getInstance call returns that one object.
SingletonCreation ==
    \A class \in Classes :
        /\ instances[class] <= 1
        /\ sInstance[class] = instances[class]
        /\ \A t \in Threads :
              (frame[t].op = "getInstance" /\ frame[t].class = class) =>
                 /\ pc[t] \in {"gi_new", "gi_unlock"} => sMutex[class] = t
                 /\ pc[t] = "gi_return" =>
                       (frame[t].result = sInstance[class] /\ frame[t].result # nullptr)

\* two threads raced through the first check of the same class, both took the
\* lock path, and both hold the result
SingletonCreationWitness ==
    \E t \in Threads, u \in Threads, class \in Classes :
        /\ t # u
        /\ pc[t] = "gi_return" /\ pc[u] = "gi_return"
        /\ frame[t].class = class /\ frame[u].class = class
        /\ frame[t].locked /\ frame[u].locked

-----------------------------------------------------------------------------
(* One controller thread calling initialize, cleanup, addPathMapping and       *)
(* removePathMapping, and guest threads calling redirectPath.  initialize()    *)
(* and cleanup() take no lock: their statements are steps the guests may run   *)
(* between.  A clear() of the table while a guest's scan stands on one of its  *)
(* elements leaves that guest with a dangling iterator: the process goes on or *)
(* dies.                                                                       *)

Controller == 1
Guests == Threads \ {Controller}

\* some thread is inside the loop of redirectPath
ScanInProgress == \E u \in Threads : pc[u] = "rp_scan"

lifeRest == <<arch, now, last, mMutex, instVars>>

\* initialize, lines 42-46: the flag is read
InCall(t) ==
    /\ alive /\ pc[t] = "idle"
    /\ frame' = [frame EXCEPT ![t] = [op |-> "initialize", ok |-> mIsInitialized]]
    /\ pc' = [pc EXCEPT ![t] = IF mIsInitialized THEN "in_return" ELSE "in_clear"]
    /\ UNCHANGED <<mIsInitialized, mPathMappings, hookIsInitialized, mHookManager,
                   installed, patched, alive, lifecycle, lifeRest>>

\* initialize, line 52: mPathMappings.clear(), mMutex not held
InClear(t, crash) ==
    /\ alive /\ pc[t] = "in_clear"
    /\ IF crash /\ ScanInProgress /\ mPathMappings # EmptyMap
       THEN alive' = FALSE /\ UNCHANGED <<mPathMappings, frame, pc>>
       ELSE /\ mPathMappings' = EmptyMap
            /\ frame' = IF mPathMappings # EmptyMap THEN Disturb(t) ELSE frame
            /\ pc' = [pc EXCEPT ![t] = "in_hooks"]
            /\ UNCHANGED alive
    /\ UNCHANGED <<mIsInitialized, hookIsInitialized, mHookManager, installed, patched,
                   lifecycle, lifeRest>>

\* initialize, lines 55-58: initializeSystemCallHooks; failAt names the step
\* that reports failure
InHooks(t, failAt) ==
    /\ alive /\ pc[t] = "in_hooks"
    /\ SubstrateInitialize(failAt)
    /\ LET ok == SubstrateInitializeOk(failAt) /\ failAt \notin EntryPointSteps
       IN  /\ frame' = [frame EXCEPT ![t].ok = ok]
           /\ pc' = [pc EXCEPT ![t] = IF ok THEN "in_flag" ELSE "in_return"]
           /\ lifecycle' = IF ok THEN lifecycle ELSE "failed"
    /\ UNCHANGED <<mIsInitialized, mPathMappings, alive, lifeRest>>

\* initialize, line 60: the flag is set
InFlag(t) ==
    /\ alive /\ pc[t] = "in_flag"
    /\ mIsInitialized' = TRUE
    /\ lifecycle' = "active"
    /\ pc' = [pc EXCEPT ![t] = "in_return"]
    /\ UNCHANGED <<frame, mPathMappings, hookIsInitialized, mHookManager, installed,
                   patched, alive, lifeRest>>

\* cleanup, lines 70-73: the flag is read
ClCall(t) ==
    /\ alive /\ pc[t] = "idle"
    /\ frame' = [frame EXCEPT ![t] = [op |-> "cleanup"]]
    /\ pc' = [pc EXCEPT ![t] = IF mIsInitialized THEN "cl_hooks" ELSE "cl_return"]
    /\ UNCHANGED <<mIsInitialized, mPathMappings, hookIsInitialized, mHookManager,
                   installed, patched, alive, lifecycle, lifeRest>>

\* cleanup, line 79: cleanupSystemCallHooks
ClHooks(t, crash, failing) ==
    /\ alive /\ pc[t] = "cl_hooks"
    /\ SubstrateCleanup(crash, failing)
    /\ pc' = IF alive' THEN [pc EXCEPT ![t] = "cl_clear"] ELSE pc
    /\ UNCHANGED <<frame, mIsInitialized, mPathMappings, lifecycle, lifeRest>>

\* mutant: cleanup leaves the rules in the table
ClClearSkipped(t, crash) ==
    /\ alive /\ pc[t] = "cl_clear"
    /\ pc' = [pc EXCEPT ![t] = "cl_flag"]
    /\ UNCHANGED <<mPathMappings, frame, alive, mIsInitialized, hookIsInitialized,
                   mHookManager, installed, patched, lifecycle, lifeRest>>

\* cleanup, line 82: mPathMappings.clear(), mMutex not held
ClClear(t, crash) ==
    /\ alive /\ pc[t] = "cl_clear"
    /\ IF crash /\ ScanInProgress /\ mPathMappings # EmptyMap
       THEN alive' = FALSE /\ UNCHANGED <<mPathMappings, frame, pc>>
       ELSE /\ mPathMappings' = EmptyMap
            /\ frame' = IF mPathMappings # EmptyMap THEN Disturb(t) ELSE frame
            /\ pc' = [pc EXCEPT ![t] = "cl_flag"]
            /\ UNCHANGED alive
    /\ UNCHANGED <<mIsInitialized, hookIsInitialized, mHookManager, installed, patched,
                   lifecycle, lifeRest>>

\* cleanup, line 84: the flag is reset
ClFlag(t) ==
    /\ alive /\ pc[t] = "cl_flag"
    /\ mIsInitialized' = FALSE
    /\ lifecycle' = "cleaned"
    /\ pc' = [pc EXCEPT ![t] = "cl_return"]
    /\ UNCHANGED <<frame, mPathMappings, hookIsInitialized, mHookManager, installed,
                   patched, alive, lifeRest>>

\* the controller has the result of initialize or cleanup
LifeReturn(t) ==
    /\ alive /\ pc[t] \in {"in_return", "cl_return"}
    /\ pc' = [pc EXCEPT ![t] = "idle"]
    /\ frame' = [frame EXCEPT ![t] = NoFrame]
    /\ UNCHANGED <<mIsInitialized, mPathMappings, hookIsInitialized, mHookManager,
                   installed, patched, alive, lifecycle, lifeRest>>

NextLife ==
    \/ InCall(Controller)
    \/ \E crash \in BOOLEAN : InClear(Controller, crash)
    \/ \E failAt \in FailInputs : InHooks(Controller, failAt)
    \/ InFlag(Controller)
    \/ ClCall(Controller)
    \/ \E crash \in BOOLEAN, failing \in SUBSET DOMAIN mHookManager :
          ClHooks(Controller, crash, failing)
    \/ \E crash \in BOOLEAN : ClClear(Controller, crash)
    \/ ClFlag(Controller)
    \/ LifeReturn(Controller)
    \/ \E in \in ConcAddInputs : ApCall(Controller, in[1], in[2])
    \/ ApLock(Controller)
    \/ ApInsert(Controller)
    \/ \E p \in ConcRemoveInputs : RmCall(Controller, p)
    \/ RmLock(Controller)
    \/ RmErase(Controller)
    \/ \E t \in Guests :
          \/ \E p \in ConcPathInputs : RpCall(t, p)
          \/ RpLock(t)
          \/ RpScan(t)
          \/ RpFinish(t)
    \/ \E t \in Threads : Return(t)

SpecLife == Init /\ [][NextLife]_vars

\* C27: a facade whose flag is reset has an empty rule table, at every step of
\* the controller's calls and of the guests' calls.
NoRulesWhenUninitialized ==
    ~mIsInitialized => mPathMappings = EmptyMap

\* cleanup() has just cleared a table that held rules: the flag is reset, and a guest
\* still holds a path that was redirected by one of them
NoRulesWhenUninitializedWitness ==
    /\ alive
    /\ ~mIsInitialized
    /\ pc[Controller] = "cl_return"
    /\ \E u \in Guests :
          /\ pc[u] = "rp_return"
          /\ frame[u].out # frame[u].path
          /\ ~frame[u].stable

\* C28: the table clears of initialize() and cleanup() are made while holding
\* mMutex, so while a redirectPath scan stands inside the table the controller
\* is never at a clear of the table without being the holder of mMutex.
NoScanOverlapsClear ==
    \A t \in Threads, u \in Threads :
        (/\ pc[t] = "rp_scan"
         /\ mPathMappings # EmptyMap
         /\ pc[u] \in {"in_clear", "cl_clear"}) => mMutex = u

-----------------------------------------------------------------------------
(* Every thread calling every public operation: getInstance, initialize,       *)
(* cleanup, addPathMapping, removePathMapping, redirectPath of the facade and  *)
(* hookMethod, unhookMethod of the registry.  sMutex is taken by getInstance   *)
(* only, mMutex by addPathMapping, removePathMapping and redirectPath only.    *)

\* the targets and paths the threads use
AllTargets == {1}
AllPathInputs == {<<"/", "a">>}
AllAddInputs == {<<<<"/", "a">>, <<"/", "v">>>>, <<<<>>, <<"/", "v">>>>}

\* one step of thread t in one of its calls
StepOf(t) ==
    \/ \E class \in Classes, seen \in {nullptr, 1} : GiCall(t, class, seen)
    \/ GiLock(t)
    \/ GiNew(t)
    \/ GiUnlock(t)
    \/ GiReturn(t)
    \/ InCall(t)
    \/ \E crash \in BOOLEAN : InClear(t, crash)
    \/ \E failAt \in {"none", "hookOpen"} : InHooks(t, failAt)
    \/ InFlag(t)
    \/ ClCall(t)
    \/ \E crash \in BOOLEAN, failing \in SUBSET DOMAIN mHookManager :
          ClHooks(t, crash, failing)
    \/ \E crash \in BOOLEAN : ClClear(t, crash)
    \/ ClFlag(t)
    \/ LifeReturn(t)
    \/ \E p \in AllPathInputs : RpCall(t, p)
    \/ RpLock(t)
    \/ RpScan(t)
    \/ RpFinish(t)
    \/ \E in \in AllAddInputs : ApCall(t, in[1], in[2])
    \/ ApLock(t)
    \/ ApInsert(t)
    \/ \E p \in AllPathInputs : RmCall(t, p)
    \/ RmLock(t)
    \/ RmErase(t)
    \/ Return(t)
    \/ \E x \in AllTargets, ok \in BOOLEAN : HmCall(t, x, 2, 1, ok)
    \/ HmBackend(t)
    \/ HmRecord(t)
    \/ \E x \in AllTargets, ok \in BOOLEAN : UhCall(t, x, ok)
    \/ UhFind(t)
    \/ \E crash \in BOOLEAN : UhBackend(t, crash)
    \/ \E crash \in BOOLEAN : UhErase(t, crash)
    \/ RegReturn(t)

NextAll == \E t \in Threads : StepOf(t)

SpecAll == Init /\ [][NextAll]_vars

\* the statements a thread runs while its lock_guard holds mMutex
MMutexSection == {"rp_scan", "ap_insert", "rm_erase"}
\* the statements a thread runs while its lock_guard holds sMutex
SMutexSection == {"gi_new", "gi_unlock"}
\* the statements at which a thread waits for a mutex
LockWait == {"rp_lock", "ap_lock", "rm_lock", "gi_lock"}

\* the threads that hold a mutex thread t waits for
Blockers(t) ==
    IF pc[t] \in {"rp_lock", "ap_lock", "rm_lock"} THEN {mMutex} \ {0}
    ELSE IF pc[t] = "gi_lock" THEN {sMutex[frame[t].class]} \ {0}
    ELSE {}

\* C26: a mutex is held only by a thread inside the scope of the lock_guard that
\* took it, a thread waiting for a mutex holds none, and while the process runs
\* every call in flight can take its next step unless it waits for a mutex,
\* whose holder then can take its next step: no call is stuck.
NoStuckCalls ==
    /\ \A t \in Threads :
          /\ mMutex = t <=> pc[t] \in MMutexSection
          /\ \A c \in Classes :
                sMutex[c] = t <=> (pc[t] \in SMutexSection /\ frame[t].class = c)
          /\ pc[t] \in LockWait => (mMutex # t /\ \A c \in Classes : sMutex[c] # t)
          /\ pc[t] \in MMutexSection => \A c \in Classes : sMutex[c] # t
          /\ pc[t] \in SMutexSection => mMutex # t
    /\ alive =>
          \A t \in Threads :
              pc[t] # "idle" =>
                  \/ ENABLED StepOf(t)
                  \/ /\ Blockers(t) # {}
                     /\ \A u \in Blockers(t) :
                           u # t /\ pc[u] \notin LockWait /\ ENABLED StepOf(u)

\* one thread holds mMutex inside redirectPath while another waits for it in
\* addPathMapping, and sMutex of the facade class has been taken and released
NoStuckCallsWitness ==
    /\ alive
    /\ \E t \in Threads, u \in Threads :
          /\ pc[t] = "rp_scan" /\ mMutex = t
          /\ pc[u] = "ap_lock"
          /\ ~ENABLED StepOf(u)
    /\ instances["IORelocator"] = 1
    /\ sMutex["IORelocator"] = 0

-----------------------------------------------------------------------------
(* FileUtils::normalizePath as a function of its argument.  The argument is    *)
(* drawn at the start; each step applies normalizePath to the string the       *)
(* previous step returned.                                                     *)

\* the strings given to normalizePath
NormInputs == AllPaths(MaxLen + 1) \cup {Data, DataApp, DataAppFoo, DataOther}

InitNorm ==
    /\ mIsInitialized = FALSE
    /\ mPathMappings = EmptyMap
    /\ hookIsInitialized = FALSE
    /\ mHookManager = EmptyMap
    /\ arch = ARCH_ARM64
    /\ now = 0
    /\ alive = TRUE
    /\ lifecycle = "constructed"
    /\ installed = {}
    /\ patched = {}
    /\ last \in {PathCall("argument", <<>>, <<>>, TRUE, p) : p \in NormInputs}
    /\ mMutex = 0
    /\ pc = [t \in Threads |-> "idle"]
    /\ frame = [t \in Threads |-> NoFrame]
    /\ sInstance = [c \in Classes |-> nullptr]
    /\ sMutex = [c \in Classes |-> 0]
    /\ instances = [c \in Classes |-> 0]

\* a call of FileUtils::normalizePath on the string at hand
NormalizePath ==
    /\ last.op \in {"argument", "normalizePath"}
    /\ last' = PathCall("normalizePath", last.out, <<>>, TRUE, normalizePath(last.out))
    /\ UNCHANGED <<mIsInitialized, mPathMappings, hookIsInitialized, mHookManager, arch,
                   now, alive, lifecycle, installed, patched, concVars>>

NextNorm == NormalizePath

SpecNorm == InitNorm /\ [][NextNorm]_vars

\* C31: what normalizePath returns is a fixed point of normalizePath, has no
\* backslash, no two adjacent separators and no trailing separator unless it is
\* the single character "/"; the empty string gives the empty string.
NormalizePathIdempotent ==
    last.op = "normalizePath" =>
        /\ normalizePath(last.out) = last.out
        /\ CanonicalSeparators(last.out)
        /\ (last.out # <<>> /\ last.out[Len(last.out)] = "/") => last.out = <<"/">>
        /\ last.path = <<>> <=> last.out = <<>>

\* normalizePath was given a string with a backslash, a doubled and a trailing
\* separator, and returned /a
NormalizePathIdempotentWitness ==
    /\ last.op = "normalizePath"
    /\ last.path = <<"\\", "/", "a", "/">>
    /\ last.out = <<"/", "a">>

====
